---- MODULE Spec2Model ----
(***************************************************************************)
(* Model of lib/promscrape/scraper.go: the scrape orchestration core.      *)
(*                                                                         *)
(*   Init/Stop            - process entry points                           *)
(*   runScraper           - the Runner goroutine                           *)
(*   scrapeConfigs        - add / updateConfig / stop                      *)
(*   scrapeConfig.run     - one goroutine per SD category                  *)
(*   scraperGroup         - update (reconcile) / stop                      *)
(*   scraper worker       - the goroutine spawned by update                *)
(***************************************************************************)
EXTENDS Integers, Sequences, FiniteSets, TLC

\* ---------------------------------------------------------------- bounds
\* Longest ScrapeWork list an extractor returns.
MaxLen == 2
\* Most scrapers ever spawned in one group.
MaxScrapers == 2
\* Most changed reloads the Runner applies.
MaxReloads == 2

\* ---------------------------------------------------------------- domains
\* The SD categories added by runScraper, in the order of the add calls.
\* Two of the ten categories are modelled: one with check interval 0 and
\* one with a positive check interval.
SDNames == <<"static_configs", "file_sd_configs">>
NumSD == Len(SDNames)
Groups == 1..NumSD

\* checkInterval passed to scs.add for each category.
CheckInterval(g) == IF SDNames[g] = "static_configs" THEN 0 ELSE 30

\* Target keys and original label sets; NilLabels is Go's nil slice.
Keys == {"a", "b"}
NilLabels == "nil"
OrigLabels == {NilLabels, "l1"}
ScrapeWork == [key : Keys, OriginalLabels : OrigLabels]

\* sw.key(): the fingerprint of the scrape-relevant fields; the original
\* labels are not part of it.
Key(sw) == sw.key

\* The targets service discovery may report: two for key "a", one of them
\* without original labels, and one for key "b".
SDTargets ==
    { [key |-> "a", OriginalLabels |-> NilLabels],
      [key |-> "a", OriginalLabels |-> "l1"],
      [key |-> "b", OriginalLabels |-> "l1"] }

\* Bounded sequences over S.
SeqUpTo(S, n) == UNION {[1..i -> S] : i \in 0..n}
SWLists == SeqUpTo(SDTargets, MaxLen)

\* Raw bytes the config file may hold.
RawConfigs == {"c1", "c2"}
LoadErr == "err"
NoConfig == "none"

\* loadConfig parses the raw bytes into a Config.
ParseConfig(raw) == IF raw = "c1" THEN "A" ELSE "B"

\* cfg.getStaticScrapeWork(): the static targets the config names.
getStaticScrapeWork(c) ==
    IF c = "A"
    THEN << [key |-> "a", OriginalLabels |-> "l1"] >>
    ELSE << [key |-> "b", OriginalLabels |-> "l1"],
            [key |-> "b", OriginalLabels |-> "l1"] >>

\* The lists scfg.getScrapeWork(cfg, swsPrev) may return for category g.
\* A service-discovery extractor reads the outside world, so any list may
\* come back; the static extractor is a function of the config.
getScrapeWork(g, c, prev) ==
    IF CheckInterval(g) = 0 THEN {getStaticScrapeWork(c)} ELSE SWLists

\* A comparison that never finds the bytes equal.
BytesNeverEqual(x, y) == FALSE

\* bytes.Equal(data, dataNew)
BytesEqual(x, y) == x = y

\* ---------------------------------------------------------------- state
VARIABLES
    configFile,      \* *promscrapeConfigFile: "" or a path
    suppress,        \* *suppressDuplicateScrapeTargetErrors
    globalStop,      \* number of close(globalStopCh)
    stopReturned,    \* Stop() has returned
    rpc,             \* position of the runScraper goroutine
    ridx,            \* index of the next scs.add / of the next send in updateConfig
    cfg,             \* runScraper's cfg
    data,            \* runScraper's data
    dataNew,         \* result of the last loadConfig on SIGHUP / tick
    configReloads,   \* vm_promscrape_config_reloads_total
    Pending,         \* PendingScrapeConfigs
    scfgs,           \* scs.scfgs: number of ScrapeConfigs added
    scsStop,         \* number of close(scs.stopCh)
    spc,             \* position of each scrapeConfig.run goroutine
    cfgCh,           \* scfg.cfgCh: buffered channel of capacity 1
    scfgCfg,         \* cfg local of scrapeConfig.run
    swsPrev,         \* swsPrev local of scrapeConfig.run
    m,               \* sg.m: key -> index of the scraper in scrapers, 0 if absent
    scrapers,        \* every scraper ever created by the group, in creation order
    changesCount,    \* sg.changesCount
    droppedTargets,  \* original labels passed to droppedTargetsMap.Register by the last update
    dupErrors,       \* duplicate-target errors logged by the last update
    tsm,             \* tsmGlobal: the registered targets, as (group, scraper index)
    upd              \* locals of an sg.update call that is under way, per group

vars == << configFile, suppress, globalStop, stopReturned, rpc, ridx, cfg, data,
           dataNew, configReloads, Pending, scfgs, scsStop, spc, cfgCh, scfgCfg,
           swsPrev, m, scrapers, changesCount, droppedTargets, dupErrors, tsm,
           upd >>

runnerVars == << rpc, ridx, cfg, data, dataNew, configReloads, scfgs, scsStop >>
groupVars == << m, scrapers, changesCount, droppedTargets, dupErrors, tsm >>
scfgVars == << spc, scfgCfg, swsPrev >>

NoScraper == 0
EmptyMap == [k \in Keys |-> NoScraper]

\* swsMap of update: key -> original labels.  A missing key reads as Go's
\* zero value, the nil slice.
Absent == "absent"
EmptySwsMap == [k \in Keys |-> Absent]

\* The locals of sg.update while no call is under way: i is the position in
\* sws of the loop (0: no call), spawned the scraper whose goroutine the
\* current iteration has spawned and not yet registered.
NoUpdate == [i |-> 0, sws |-> << >>, swsMap |-> EmptySwsMap, additionsCount |-> 0,
             errors |-> 0, dropped |-> << >>, spawned |-> NoScraper]

\* The state after Init(pushData), for any setting of the flags.
Init ==
    /\ configFile \in {"", "prometheus.yml"}
    /\ suppress \in BOOLEAN
    /\ globalStop = 0
    /\ stopReturned = FALSE
    /\ rpc = "start"
    /\ ridx = 1
    /\ cfg = NoConfig
    /\ data = NoConfig
    /\ dataNew = NoConfig
    /\ configReloads = 0
    /\ Pending = 0
    /\ scfgs = 0
    /\ scsStop = 0
    /\ spc = [g \in Groups |-> "unborn"]
    /\ cfgCh = [g \in Groups |-> << >>]
    /\ scfgCfg = [g \in Groups |-> NoConfig]
    /\ swsPrev = [g \in Groups |-> << >>]
    /\ m = [g \in Groups |-> EmptyMap]
    /\ scrapers = [g \in Groups |-> << >>]
    /\ changesCount = [g \in Groups |-> 0]
    /\ droppedTargets = [g \in Groups |-> << >>]
    /\ dupErrors = [g \in Groups |-> 0]
    /\ tsm = {}
    /\ upd = [g \in Groups |-> NoUpdate]


\* ---------------------------------------------------------------- scraperGroup
\* newScraper(sw, ...): a scraper with a fresh, open stop channel.  stopCh
\* counts the close(sc.stopCh) calls; st is the position of the goroutine
\* that update spawns for it: "run" inside sc.sw.run, "done" once run has
\* returned and the goroutine has called tsmGlobal.Unregister and sg.wg.Done.
newScraper(sw) == [sw |-> sw, stopCh |-> 0, st |-> "run"]

\* swsMap[key]
SwsMapGet(swsMap, key) == IF swsMap[key] = Absent THEN NilLabels ELSE swsMap[key]
\* A membership test that reads the stored labels instead of the presence of
\* the key.
SwsMapHasLabels(swsMap, key) == SwsMapGet(swsMap, key) # NilLabels

SwsMapHas(swsMap, key) == swsMap[key] # Absent

\* The duplicate test of update: originalLabels := swsMap[key]; originalLabels != nil
IsDuplicate(swsMap, key) == SwsMapGet(swsMap, key) # NilLabels

\* A lookup that never finds the running scraper.
HasScraperNever(mg, key) == FALSE

\* sg.m[key] != nil
HasScraper(mg, key) == mg[key] # NoScraper

\* One iteration of the first loop of update over sws[i].
UpdateAddOne(st, sw, supp) ==
    LET key == Key(sw) IN
    IF IsDuplicate(st.swsMap, key)
    THEN [st EXCEPT !.errors = IF supp THEN @ ELSE @ + 1,
                    !.dropped = Append(@, sw.OriginalLabels)]
    ELSE LET st1 == [st EXCEPT !.swsMap[key] = sw.OriginalLabels] IN
         IF HasScraper(st.m, key)
         THEN st1
         ELSE [st1 EXCEPT !.scrapers = Append(@, newScraper(sw)),
                          !.m[key] = Len(st.scrapers) + 1,
                          !.additionsCount = @ + 1]

\* The first loop of update: for i := range sws.
RECURSIVE UpdateAddPass(_, _, _, _)
UpdateAddPass(st, sws, i, supp) ==
    IF i > Len(sws) THEN st
    ELSE UpdateAddPass(UpdateAddOne(st, sws[i], supp), sws, i + 1, supp)

\* A second loop that deletes nothing.
DeletedKeysNone(mg, swsMap) == {}

\* The keys the second loop of update deletes: live keys missing in swsMap.
DeletedKeys(mg, swsMap) == {k \in Keys : HasScraper(mg, k) /\ ~SwsMapHas(swsMap, k)}

\* A close(sc.stopCh) that closes nothing.
CloseStopChsNone(scs, idxs) == scs

\* close(sc.stopCh) for the scrapers with the given indexes.
CloseStopChs(scs, idxs) ==
    [i \in 1..Len(scs) |-> IF i \in idxs THEN [scs[i] EXCEPT !.stopCh = @ + 1] ELSE scs[i]]

\* A second loop that stops and deletes but does not count its deletions.
UpdateDeletePassNoCount(st) ==
    LET del == DeletedKeys(st.m, st.swsMap) IN
    [st EXCEPT !.scrapers = CloseStopChs(@, {st.m[k] : k \in del}),
               !.m = [k \in Keys |-> IF k \in del THEN NoScraper ELSE @[k]]]

\* The second loop of update: stop and delete the scrapers missing in sws.
UpdateDeletePass(st) ==
    LET del == DeletedKeys(st.m, st.swsMap) IN
    [st EXCEPT !.scrapers = CloseStopChs(@, {st.m[k] : k \in del}),
               !.m = [k \in Keys |-> IF k \in del THEN NoScraper ELSE @[k]],
               !.deletionsCount = Cardinality(del)]

\* sg.update(sws) on live map mg and scrapers scs.
update(mg, scs, sws, supp) ==
    UpdateDeletePass(
        UpdateAddPass([m |-> mg, scrapers |-> scs, swsMap |-> EmptySwsMap,
                       additionsCount |-> 0, deletionsCount |-> 0,
                       errors |-> 0, dropped |-> << >>],
                      sws, 1, supp))

\* A stop() that closes the stop channel of every scraper the group ever
\* started.
StopScrapersAll(mg, scs) == CloseStopChs(scs, 1..Len(scs))

\* The first half of sg.stop(): close every live scraper's stop channel.
StopScrapers(mg, scs) == CloseStopChs(scs, {mg[k] : k \in {x \in Keys : HasScraper(mg, x)}})

\* sc.sw.run(sc.stopCh) returns only once the stop channel is closed.
RunReturns(sc) == sc.stopCh > 0

\* tsmGlobal.Register(sw) for the scrapers of group g with the given
\* indexes, and tsmGlobal.Unregister(sw) for one of them.
TsmRegister(t, g, idxs) == t \cup {<< g, i >> : i \in idxs}
TsmUnregister(t, g, i) == t \ {<< g, i >>}

\* A stop() that does not wait for the workers.
WgDoneNoWait(scs) == TRUE

\* sg.wg.Wait() returns: every spawned goroutine has called sg.wg.Done.
WgDone(scs) == \A i \in 1..Len(scs) : scs[i].st = "done"


\* ---------------------------------------------------------------- Stop
\* Stop(), first statement: close(globalStopCh).  Stop may be called once,
\* at any time after Init.
StopCall ==
    /\ globalStop = 0
    /\ rpc # "fatal"
    /\ globalStop' = globalStop + 1
    /\ UNCHANGED << configFile, suppress, upd, stopReturned, runnerVars, Pending,
                    scfgVars, cfgCh, groupVars >>

\* Stop(), second statement: scraperWG.Wait() returns once the runScraper
\* goroutine has returned.
StopReturn ==
    /\ globalStop > 0
    /\ ~stopReturned
    /\ rpc = "done"
    /\ stopReturned' = TRUE
    /\ UNCHANGED << configFile, suppress, upd, globalStop, runnerVars, Pending,
                    scfgVars, cfgCh, groupVars >>

\* ---------------------------------------------------------------- runScraper
\* configFile == "": nothing to scrape, return.
RunnerNoConfig ==
    /\ rpc = "start"
    /\ configFile = ""
    /\ rpc' = "done"
    /\ UNCHANGED << configFile, suppress, upd, globalStop, stopReturned, ridx, cfg, data,
                    dataNew, configReloads, scfgs, scsStop, Pending, scfgVars,
                    cfgCh, groupVars >>

\* The initial loadConfig: a failure is fatal, otherwise newScrapeConfigs.
RunnerLoad(res) ==
    /\ rpc = "start"
    /\ configFile # ""
    /\ IF res = LoadErr
       THEN /\ rpc' = "fatal"
            /\ UNCHANGED << cfg, data >>
       ELSE /\ rpc' = "add"
            /\ cfg' = ParseConfig(res)
            /\ data' = res
    /\ UNCHANGED << configFile, suppress, upd, globalStop, stopReturned, ridx, dataNew,
                    configReloads, scfgs, scsStop, Pending, scfgVars, cfgCh,
                    groupVars >>

\* scs.add(name, checkInterval, getScrapeWork): one call per category.
\* After the last add the Runner enters its loop with scs.updateConfig(cfg).
RunnerAdd ==
    /\ rpc = "add"
    /\ Pending' = Pending + 1
    /\ spc' = [spc EXCEPT ![ridx] = "await"]
    /\ scfgs' = scfgs + 1
    /\ IF ridx = NumSD
       THEN rpc' = "fanout" /\ ridx' = 1
       ELSE rpc' = rpc /\ ridx' = ridx + 1
    /\ UNCHANGED << configFile, suppress, upd, globalStop, stopReturned, cfg, data,
                    dataNew, configReloads, scsStop, scfgCfg, swsPrev, cfgCh,
                    groupVars >>

\* A send that goes through whatever the buffer holds.
CanSendAlways(ch) == TRUE

\* A send on a buffered channel of capacity 1 goes through only when the
\* buffer has room.
CanSend(ch) == Len(ch) < 1
\* The channel after scfg.cfgCh <- c.
Send(ch, c) == Append(ch, c)

\* scs.updateConfig(cfg): one send scfg.cfgCh <- cfg per step; after the
\* last one the Runner reaches its select.
RunnerSend ==
    /\ rpc = "fanout"
    /\ CanSend(cfgCh[ridx])
    /\ cfgCh' = [cfgCh EXCEPT ![ridx] = Send(@, cfg)]
    /\ IF ridx = scfgs
       THEN rpc' = "select" /\ ridx' = 1
       ELSE rpc' = rpc /\ ridx' = ridx + 1
    /\ UNCHANGED << configFile, suppress, upd, globalStop, stopReturned, cfg, data,
                    dataNew, configReloads, scfgs, scsStop, Pending, scfgVars,
                    groupVars >>

\* The event sources of the Runner's select other than globalStopCh.  The
\* config-check ticker may or may not be configured; both cases run the
\* same statements.
ReloadSources == {"sighup", "tick"}

\* case <-sighupCh / case <-tickerCh: the event is received and loadConfig
\* returns res.
RunnerReload(src, res) ==
    /\ rpc = "select"
    /\ configReloads < MaxReloads
    /\ rpc' = "loaded"
    /\ dataNew' = res
    /\ UNCHANGED << configFile, suppress, upd, globalStop, stopReturned, ridx, cfg, data,
                    configReloads, scfgs, scsStop, Pending, scfgVars, cfgCh,
                    groupVars >>

\* A reload that does not check the error of loadConfig and applies whatever
\* came back.
RunnerApplyNoErrCheck ==
    /\ rpc = "loaded"
    /\ IF BytesEqual(data, dataNew)
       THEN /\ rpc' = "select"
            /\ UNCHANGED << cfg, data, configReloads, ridx >>
       ELSE /\ cfg' = ParseConfig(dataNew)
            /\ data' = dataNew
            /\ configReloads' = configReloads + 1
            /\ rpc' = "fanout"
            /\ ridx' = 1
    /\ dataNew' = NoConfig
    /\ UNCHANGED << configFile, suppress, upd, globalStop, stopReturned, scfgs, scsStop,
                    Pending, scfgVars, cfgCh, groupVars >>

\* The rest of the sighup / ticker case: goto waitForChans on an error or
\* on equal bytes; otherwise take the new config, count the reload and loop
\* to scs.updateConfig(cfg).
RunnerApply ==
    /\ rpc = "loaded"
    /\ IF dataNew = LoadErr \/ BytesEqual(data, dataNew)
       THEN /\ rpc' = "select"
            /\ UNCHANGED << cfg, data, configReloads, ridx >>
       ELSE /\ cfg' = ParseConfig(dataNew)
            /\ data' = dataNew
            /\ configReloads' = configReloads + 1
            /\ rpc' = "fanout"
            /\ ridx' = 1
    /\ dataNew' = NoConfig
    /\ UNCHANGED << configFile, suppress, upd, globalStop, stopReturned, scfgs, scsStop,
                    Pending, scfgVars, cfgCh, groupVars >>

\* A stop case that falls through to configReloads.Inc() before leaving.
RunnerStopCounted ==
    /\ rpc = "select"
    /\ globalStop > 0
    /\ scsStop' = scsStop + 1
    /\ configReloads' = configReloads + 1
    /\ rpc' = "wait"
    /\ UNCHANGED << configFile, suppress, upd, globalStop, stopReturned, ridx, cfg, data,
                    dataNew, scfgs, Pending, scfgVars, cfgCh, groupVars >>

\* case <-globalStopCh: scs.stop() begins with close(scs.stopCh).
RunnerStop ==
    /\ rpc = "select"
    /\ globalStop > 0
    /\ scsStop' = scsStop + 1
    /\ rpc' = "wait"
    /\ UNCHANGED << configFile, suppress, upd, globalStop, stopReturned, ridx, cfg, data,
                    dataNew, configReloads, scfgs, Pending, scfgVars, cfgCh,
                    groupVars >>

\* A scs.stop() without scs.wg.Wait().
RunnerWaitNoWait ==
    /\ rpc = "wait"
    /\ scfgs' = 0
    /\ rpc' = "done"
    /\ UNCHANGED << configFile, suppress, upd, globalStop, stopReturned, ridx, cfg, data,
                    dataNew, configReloads, scsStop, Pending, scfgVars, cfgCh,
                    groupVars >>

\* scs.wg.Wait() returns, scs.scfgs = nil, runScraper returns.
RunnerWait ==
    /\ rpc = "wait"
    /\ \A g \in Groups : spc[g] = "done"
    /\ scfgs' = 0
    /\ rpc' = "done"
    /\ UNCHANGED << configFile, suppress, upd, globalStop, stopReturned, ridx, cfg, data,
                    dataNew, configReloads, scsStop, Pending, scfgVars, cfgCh,
                    groupVars >>

\* ---------------------------------------------------------------- scrapeConfig.run
\* cfg := <-scfg.cfgCh
ScfgRecvInitial(g) ==
    /\ spc[g] = "await"
    /\ cfgCh[g] # << >>
    /\ scfgCfg' = [scfgCfg EXCEPT ![g] = Head(cfgCh[g])]
    /\ cfgCh' = [cfgCh EXCEPT ![g] = Tail(@)]
    /\ spc' = [spc EXCEPT ![g] = "init"]
    /\ UNCHANGED << configFile, suppress, upd, globalStop, stopReturned, runnerVars,
                    Pending, swsPrev, groupVars >>

\* updateScrapeWork(cfg): sws := getScrapeWork(cfg, swsPrev); sg.update(sws);
\* swsPrev = sws.
updateScrapeWork(g, sws) ==
    LET r == update(m[g], scrapers[g], sws, suppress) IN
    /\ Len(r.scrapers) <= MaxScrapers
    /\ m' = [m EXCEPT ![g] = r.m]
    /\ scrapers' = [scrapers EXCEPT ![g] = r.scrapers]
    /\ changesCount' = [changesCount EXCEPT ![g] =
           IF r.additionsCount > 0 \/ r.deletionsCount > 0
           THEN @ + r.additionsCount + r.deletionsCount ELSE @]
    /\ droppedTargets' = [droppedTargets EXCEPT ![g] = r.dropped]
    /\ dupErrors' = [dupErrors EXCEPT ![g] = r.errors]
    /\ tsm' = TsmRegister(tsm, g, (Len(scrapers[g]) + 1)..Len(r.scrapers))
    /\ swsPrev' = [swsPrev EXCEPT ![g] = sws]

\* The initial updateScrapeWork(cfg).
ScfgInitialUpdate(g, sws) ==
    /\ spc[g] = "init"
    /\ sws \in getScrapeWork(g, scfgCfg[g], swsPrev[g])
    /\ updateScrapeWork(g, sws)
    /\ spc' = [spc EXCEPT ![g] = "dec"]
    /\ UNCHANGED << configFile, suppress, upd, globalStop, stopReturned, runnerVars,
                    Pending, scfgCfg, cfgCh >>

\* atomic.AddInt32(&PendingScrapeConfigs, -1)
ScfgDec(g) ==
    /\ spc[g] = "dec"
    /\ Pending' = Pending - 1
    /\ spc' = [spc EXCEPT ![g] = "idle"]
    /\ UNCHANGED << configFile, suppress, upd, globalStop, stopReturned, runnerVars,
                    scfgCfg, swsPrev, cfgCh, groupVars >>

\* A stop() that sets sg.m to nil and waits for the workers without having
\* closed their stop channels.
ScfgSelectStopNoClose(g) ==
    /\ spc[g] = "idle"
    /\ scsStop > 0
    /\ m' = [m EXCEPT ![g] = EmptyMap]
    /\ spc' = [spc EXCEPT ![g] = "waitwg"]
    /\ UNCHANGED << configFile, suppress, upd, globalStop, stopReturned, runnerVars,
                    Pending, scfgCfg, swsPrev, cfgCh, scrapers, changesCount,
                    droppedTargets, dupErrors, tsm >>

\* select, case <-scfg.stopCh: return.  The deferred sg.stop() closes every
\* live scraper's stop channel and sets sg.m to nil under the lock.
ScfgSelectStop(g) ==
    /\ spc[g] = "idle"
    /\ scsStop > 0
    /\ scrapers' = [scrapers EXCEPT ![g] = StopScrapers(m[g], @)]
    /\ m' = [m EXCEPT ![g] = EmptyMap]
    /\ spc' = [spc EXCEPT ![g] = "waitwg"]
    /\ UNCHANGED << configFile, suppress, upd, globalStop, stopReturned, runnerVars,
                    Pending, scfgCfg, swsPrev, cfgCh, changesCount, droppedTargets,
                    dupErrors, tsm >>

\* select, case cfg = <-scfg.cfgCh
ScfgSelectCfg(g) ==
    /\ spc[g] = "idle"
    /\ cfgCh[g] # << >>
    /\ scfgCfg' = [scfgCfg EXCEPT ![g] = Head(cfgCh[g])]
    /\ cfgCh' = [cfgCh EXCEPT ![g] = Tail(@)]
    /\ spc' = [spc EXCEPT ![g] = "busy"]
    /\ UNCHANGED << configFile, suppress, upd, globalStop, stopReturned, runnerVars,
                    Pending, swsPrev, groupVars >>

\* A ticker case that is ready whatever the check interval is.
ScfgSelectTickAny(g) ==
    /\ spc[g] = "idle"
    /\ spc' = [spc EXCEPT ![g] = "busy"]
    /\ UNCHANGED << configFile, suppress, upd, globalStop, stopReturned, runnerVars,
                    Pending, scfgCfg, swsPrev, cfgCh, groupVars >>

\* select, case <-tickerCh: tickerCh is nil unless checkInterval > 0.
ScfgSelectTick(g) ==
    /\ spc[g] = "idle"
    /\ CheckInterval(g) > 0
    /\ spc' = [spc EXCEPT ![g] = "busy"]
    /\ UNCHANGED << configFile, suppress, upd, globalStop, stopReturned, runnerVars,
                    Pending, scfgCfg, swsPrev, cfgCh, groupVars >>

\* A loop whose updateScrapeWork also decrements PendingScrapeConfigs.
ScfgUpdateDec(g, sws) ==
    /\ spc[g] = "busy"
    /\ sws \in getScrapeWork(g, scfgCfg[g], swsPrev[g])
    /\ updateScrapeWork(g, sws)
    /\ Pending' = Pending - 1
    /\ spc' = [spc EXCEPT ![g] = "idle"]
    /\ UNCHANGED << configFile, suppress, upd, globalStop, stopReturned, runnerVars,
                    scfgCfg, cfgCh >>

\* updateScrapeWork(cfg) at the bottom of the loop.
ScfgUpdate(g, sws) ==
    /\ spc[g] = "busy"
    /\ sws \in getScrapeWork(g, scfgCfg[g], swsPrev[g])
    /\ updateScrapeWork(g, sws)
    /\ spc' = [spc EXCEPT ![g] = "idle"]
    /\ UNCHANGED << configFile, suppress, upd, globalStop, stopReturned, runnerVars,
                    Pending, scfgCfg, cfgCh >>

\* The second half of sg.stop(): sg.wg.Wait() returns; then run returns and
\* the goroutine calls scs.wg.Done.
ScfgWait(g) ==
    /\ spc[g] = "waitwg"
    /\ WgDone(scrapers[g])
    /\ spc' = [spc EXCEPT ![g] = "done"]
    /\ UNCHANGED << configFile, suppress, upd, globalStop, stopReturned, runnerVars,
                    Pending, scfgCfg, swsPrev, cfgCh, groupVars >>

\* ---------------------------------------------------------------- scraper worker
\* A goroutine that returns without tsmGlobal.Unregister(sw).
WorkerExitNoUnregister(g, i) ==
    /\ i \in 1..Len(scrapers[g])
    /\ scrapers[g][i].st = "run"
    /\ RunReturns(scrapers[g][i])
    /\ scrapers' = [scrapers EXCEPT ![g][i].st = "done"]
    /\ UNCHANGED << configFile, suppress, upd, globalStop, stopReturned, runnerVars,
                    Pending, scfgVars, cfgCh, m, changesCount, droppedTargets,
                    dupErrors, tsm >>

\* The goroutine spawned by update, from the point where it blocks:
\* sc.sw.run(sc.stopCh) returns, tsmGlobal.Unregister(sw), then the deferred
\* sg.wg.Done().
WorkerExit(g, i) ==
    /\ i \in 1..Len(scrapers[g])
    /\ scrapers[g][i].st = "run"
    /\ RunReturns(scrapers[g][i])
    /\ scrapers' = [scrapers EXCEPT ![g][i].st = "done"]
    /\ tsm' = TsmUnregister(tsm, g, i)
    /\ UNCHANGED << configFile, suppress, upd, globalStop, stopReturned, runnerVars,
                    Pending, scfgVars, cfgCh, m, changesCount, droppedTargets,
                    dupErrors >>

\* ---------------------------------------------------------------- sg.update, statement by statement
\* The same update with the steps of one call told apart, so that the
\* goroutine an iteration spawns can run between the go statement and the
\* statements that follow it.  A goroutine that has been spawned and has not
\* begun to run has st = "spawned".
\*
\* The loop state of the call of group g, in the shape UpdateAddOne takes.
UpdLoopState(g) ==
    [m |-> m[g], scrapers |-> scrapers[g], swsMap |-> upd[g].swsMap,
     additionsCount |-> upd[g].additionsCount, deletionsCount |-> 0,
     errors |-> upd[g].errors, dropped |-> upd[g].dropped]

\* updateScrapeWork calls sg.update(sws): the lock is taken and the locals
\* are fresh.
UpdateBegin(g, sws) ==
    /\ spc[g] = "busy"
    /\ upd[g].i = 0
    /\ sws \in getScrapeWork(g, scfgCfg[g], swsPrev[g])
    /\ Len(update(m[g], scrapers[g], sws, suppress).scrapers) <= MaxScrapers
    /\ upd' = [upd EXCEPT ![g] = [NoUpdate EXCEPT !.i = 1, !.sws = sws]]
    /\ UNCHANGED << configFile, suppress, globalStop, stopReturned, runnerVars,
                    Pending, scfgVars, cfgCh, groupVars >>

\* One iteration of the first loop.  An iteration that starts a scraper
\* stops right after its go statement: the scraper exists, its goroutine is
\* spawned, and tsmGlobal.Register(sw), sg.m[key] = sc and additionsCount++
\* are still to come.
UpdateIter(g) ==
    LET u == upd[g]
        r == UpdateAddOne(UpdLoopState(g), u.sws[u.i], suppress)
    IN
    /\ u.i \in 1..Len(u.sws)
    /\ u.spawned = NoScraper
    /\ IF Len(r.scrapers) = Len(scrapers[g])
       THEN /\ upd' = [upd EXCEPT ![g] = [u EXCEPT !.i = @ + 1,
                                                   !.swsMap = r.swsMap,
                                                   !.errors = r.errors,
                                                   !.dropped = r.dropped]]
            /\ UNCHANGED scrapers
       ELSE /\ scrapers' = [scrapers EXCEPT ![g] =
                   [r.scrapers EXCEPT ![Len(r.scrapers)].st = "spawned"]]
            /\ upd' = [upd EXCEPT ![g] = [u EXCEPT !.swsMap = r.swsMap,
                                                   !.spawned = Len(r.scrapers)]]
    /\ UNCHANGED << configFile, suppress, globalStop, stopReturned, runnerVars,
                    Pending, scfgVars, cfgCh, m, changesCount, droppedTargets,
                    dupErrors, tsm >>

\* The rest of an iteration that started a scraper: tsmGlobal.Register(sw),
\* sg.m[key] = sc, additionsCount++.
UpdateRegister(g) ==
    LET u == upd[g] IN
    /\ u.spawned # NoScraper
    /\ tsm' = TsmRegister(tsm, g, {u.spawned})
    /\ m' = [m EXCEPT ![g][Key(u.sws[u.i])] = u.spawned]
    /\ upd' = [upd EXCEPT ![g] = [u EXCEPT !.spawned = NoScraper,
                                           !.additionsCount = @ + 1,
                                           !.i = @ + 1]]
    /\ UNCHANGED << configFile, suppress, globalStop, stopReturned, runnerVars,
                    Pending, scfgVars, cfgCh, scrapers, changesCount,
                    droppedTargets, dupErrors >>

\* After the first loop: the second loop, the changes counter, the unlock;
\* back in updateScrapeWork, swsPrev = sws.
UpdateFinish(g) ==
    LET u == upd[g]
        r == UpdateDeletePass(UpdLoopState(g))
    IN
    /\ u.i > Len(u.sws)
    /\ m' = [m EXCEPT ![g] = r.m]
    /\ scrapers' = [scrapers EXCEPT ![g] = r.scrapers]
    /\ changesCount' = [changesCount EXCEPT ![g] =
           IF r.additionsCount > 0 \/ r.deletionsCount > 0
           THEN @ + r.additionsCount + r.deletionsCount ELSE @]
    /\ droppedTargets' = [droppedTargets EXCEPT ![g] = r.dropped]
    /\ dupErrors' = [dupErrors EXCEPT ![g] = r.errors]
    /\ swsPrev' = [swsPrev EXCEPT ![g] = u.sws]
    /\ upd' = [upd EXCEPT ![g] = NoUpdate]
    /\ spc' = [spc EXCEPT ![g] = "idle"]
    /\ UNCHANGED << configFile, suppress, globalStop, stopReturned, runnerVars,
                    Pending, scfgCfg, cfgCh, tsm >>

\* The spawned goroutine is scheduled and enters sc.sw.run(sc.stopCh).
WorkerStart(g, i) ==
    /\ i \in 1..Len(scrapers[g])
    /\ scrapers[g][i].st = "spawned"
    /\ scrapers' = [scrapers EXCEPT ![g][i].st = "run"]
    /\ UNCHANGED << configFile, suppress, upd, globalStop, stopReturned, runnerVars,
                    Pending, scfgVars, cfgCh, m, changesCount, droppedTargets,
                    dupErrors, tsm >>

\* ---------------------------------------------------------------- specification
\* The answers of the extractors explored in the whole-system specification:
\* the lists of the static extractor and a few service-discovery answers.
SysLists ==
    {getStaticScrapeWork(ParseConfig(raw)) : raw \in RawConfigs}
    \cup { << >>, << [key |-> "a", OriginalLabels |-> "l1"] >> }

\* The steps of Stop().
StopStep == StopCall \/ StopReturn

\* The steps of the runScraper goroutine up to its select.
RunnerStartStep ==
    \/ RunnerNoConfig
    \/ \E res \in RawConfigs \cup {LoadErr} : RunnerLoad(res)
    \/ RunnerAdd
    \/ RunnerSend

\* The steps of the runScraper goroutine from its select on.
RunnerLoopStep ==
    \/ \E src \in ReloadSources, res \in RawConfigs \cup {LoadErr} : RunnerReload(src, res)
    \/ RunnerApply
    \/ RunnerStop
    \/ RunnerWait

\* The steps of the scrapeConfig.run goroutines, the extractors answering
\* with a list of L.
ScfgStartStep(L) ==
    \/ \E g \in Groups : ScfgRecvInitial(g)
    \/ \E g \in Groups, sws \in L : ScfgInitialUpdate(g, sws)
    \/ \E g \in Groups : ScfgDec(g)

ScfgLoopStep(L) ==
    \/ \E g \in Groups : ScfgSelectCfg(g)
    \/ \E g \in Groups : ScfgSelectTick(g)
    \/ \E g \in Groups, sws \in L : ScfgUpdate(g, sws)

ScfgStopStep ==
    \/ \E g \in Groups : ScfgSelectStop(g)
    \/ \E g \in Groups : ScfgWait(g)

\* The steps of the scraper goroutines.
WorkerStep == \E g \in Groups, i \in 1..MaxScrapers : WorkerExit(g, i)

\* The whole system: start, reloads, reconciles and shutdown.
Next ==
    \/ StopStep
    \/ RunnerStartStep
    \/ RunnerLoopStep
    \/ ScfgStartStep(SysLists)
    \/ ScfgLoopStep(SysLists)
    \/ ScfgStopStep
    \/ WorkerStep

\* -promscrape.suppressDuplicateScrapeTargetErrors defaults to false; the flag
\* only matters to the reconcile, which SpecUpdate explores under both values.
InitDefault == Init /\ suppress = FALSE

Spec == InitDefault /\ [][Next]_vars

\* The reconcile under every answer of the extractors.  InitUpdate is the
\* state after a cold start with config "c1" in which service discovery
\* found no target: both ScrapeConfigs have made their initial reconcile and
\* the Runner waits in its select.  From there the system is left alone (no
\* reload, no Stop) while service discovery keeps answering with any list of
\* at most MaxLen targets.
InitUpdateFlags ==
    /\ configFile = "prometheus.yml"
    /\ suppress \in BOOLEAN
    /\ globalStop = 0
    /\ stopReturned = FALSE
    /\ rpc = "select"
    /\ ridx = 1
    /\ cfg = ParseConfig("c1")
    /\ data = "c1"
    /\ dataNew = NoConfig
    /\ configReloads = 0
    /\ Pending = 0
    /\ scfgs = NumSD
    /\ scsStop = 0
    /\ spc = [g \in Groups |-> "idle"]
    /\ cfgCh = [g \in Groups |-> << >>]
    /\ scfgCfg = [g \in Groups |-> ParseConfig("c1")]
    /\ LET r == [g \in Groups |->
                   update(EmptyMap, << >>,
                          IF CheckInterval(g) = 0
                          THEN getStaticScrapeWork(ParseConfig("c1")) ELSE << >>,
                          suppress)]
       IN /\ swsPrev = [g \in Groups |->
                          IF CheckInterval(g) = 0
                          THEN getStaticScrapeWork(ParseConfig("c1")) ELSE << >>]
          /\ m = [g \in Groups |-> r[g].m]
          /\ scrapers = [g \in Groups |-> r[g].scrapers]
          /\ changesCount = [g \in Groups |-> r[g].additionsCount]
          /\ droppedTargets = [g \in Groups |-> r[g].dropped]
          /\ dupErrors = [g \in Groups |-> r[g].errors]
          /\ tsm = {x \in Groups \X (1..MaxScrapers) : x[2] <= Len(r[x[1]].scrapers)}
    /\ upd = [g \in Groups |-> NoUpdate]

InitUpdate == InitUpdateFlags /\ suppress = FALSE

NextUpdate ==
    \/ \E g \in Groups : ScfgSelectTick(g)
    \/ \E g \in Groups, sws \in SWLists : ScfgUpdate(g, sws)
    \/ WorkerStep

SpecUpdate == InitUpdate /\ [][NextUpdate]_vars

\* The same with -promscrape.suppressDuplicateScrapeTargetErrors set or not.
NextUpdateFlags == NextUpdate
SpecUpdateFlags == InitUpdateFlags /\ [][NextUpdateFlags]_vars

\* The reconcile of the service-discovery groups with the steps of update
\* told apart and the scraper goroutines scheduled at any moment.
NextSpawn ==
    \/ \E g \in Groups : ScfgSelectTick(g)
    \/ \E g \in Groups, sws \in SWLists : UpdateBegin(g, sws)
    \/ \E g \in Groups : UpdateIter(g)
    \/ \E g \in Groups : UpdateRegister(g)
    \/ \E g \in Groups : UpdateFinish(g)
    \/ \E g \in Groups, i \in 1..MaxScrapers : WorkerStart(g, i)
    \/ WorkerStep

SpecSpawn == InitUpdate /\ [][NextSpawn]_vars

\* The whole system under fair scheduling.  Every goroutine that can take
\* a step eventually takes one (weak fairness on the steps of the Runner,
\* of each ScrapeConfig and of the workers, and on the return of Stop).  A
\* select picks at random among its ready cases, so a case that is ready
\* again and again is eventually taken: strong fairness on the stop case of
\* the Runner and on the stop and config cases of each ScrapeConfig.  The
\* calls of Stop, the reload signals and the ticks are up to the
\* environment and get no fairness.
\*
\* The environment of this specification: the config file holds "c1" or
\* "c2" at the start and is rewritten from "c1" to "c2", never back;
\* loadConfig may fail at any reload; service discovery keeps finding one
\* target.
LiveLists(g) ==
    IF CheckInterval(g) = 0
    THEN {getStaticScrapeWork(ParseConfig(raw)) : raw \in RawConfigs}
    ELSE { << [key |-> "a", OriginalLabels |-> "l1"] >> }

RunnerReloadLive(src, res) ==
    /\ res = "c1" => data = "c1"
    /\ RunnerReload(src, res)

NextLive ==
    \/ StopStep
    \/ RunnerStartStep
    \/ \E src \in ReloadSources, res \in RawConfigs \cup {LoadErr} : RunnerReloadLive(src, res)
    \/ RunnerApply
    \/ RunnerStop
    \/ RunnerWait
    \/ \E g \in Groups : ScfgRecvInitial(g)
    \/ \E g \in Groups : \E sws \in LiveLists(g) : ScfgInitialUpdate(g, sws)
    \/ \E g \in Groups : ScfgDec(g)
    \/ \E g \in Groups : ScfgSelectCfg(g)
    \/ \E g \in Groups : ScfgSelectTick(g)
    \/ \E g \in Groups : \E sws \in LiveLists(g) : ScfgUpdate(g, sws)
    \/ ScfgStopStep
    \/ WorkerStep

\* The steps a ScrapeConfig takes without a choice of its select.
ScfgSequentialStep(g) ==
    \/ ScfgRecvInitial(g)
    \/ \E sws \in LiveLists(g) : ScfgInitialUpdate(g, sws)
    \/ ScfgDec(g)
    \/ \E sws \in LiveLists(g) : ScfgUpdate(g, sws)
    \/ ScfgWait(g)

Fairness ==
    /\ WF_vars(StopReturn)
    /\ WF_vars(RunnerStartStep \/ RunnerApply \/ RunnerWait)
    /\ SF_vars(RunnerStop)
    /\ \A g \in Groups : WF_vars(ScfgSequentialStep(g))
    /\ \A g \in Groups : SF_vars(ScfgSelectStop(g))
    /\ \A g \in Groups : SF_vars(ScfgSelectCfg(g))
    /\ WF_vars(WorkerStep)

SpecLive == InitDefault /\ [][NextLive]_vars /\ Fairness

\* InitUpdateFlags is a state the whole system reaches from Init.
NextAnyFlag == Next
SpecAnyFlag == Init /\ [][NextAnyFlag]_vars
InitUpdateUnreached == ~InitUpdateFlags


\* ---------------------------------------------------------------- properties
\* The keys of the live map.
LiveKeys(mg) == {k \in Keys : mg[k] # NoScraper}
\* The distinct keys of a desired list.
DesiredKeys(sws) == {Key(sws[i]) : i \in 1..Len(sws)}
\* The index of the first entry of sws with key k.
FirstIndex(sws, k) ==
    CHOOSE i \in 1..Len(sws) :
        Key(sws[i]) = k /\ \A j \in 1..(i - 1) : Key(sws[j]) # k
\* The entries of sws whose key occurred earlier in sws.
LaterOccurrences(sws) ==
    {i \in 1..Len(sws) : \E j \in 1..(i - 1) : Key(sws[j]) = Key(sws[i])}
\* The scrapers of group g whose worker has not returned.
AliveWorkers(g) == {i \in 1..Len(scrapers[g]) : scrapers[g][i].st = "run"}
\* A step in which group g's ScrapeConfig completes updateScrapeWork; the
\* list it reconciled is swsPrev'[g].
ReconcileStep(g) == spc[g] \in {"init", "busy"} /\ spc'[g] \in {"dec", "idle"}
\* Group g's ScrapeConfig has made its initial reconcile and decremented
\* PendingScrapeConfigs.
InitedPcs == {"idle", "busy", "waitwg", "done"}
Inited(g) == spc[g] \in InitedPcs
\* A step of the runScraper goroutine.
RunnerStepTaken == rpc' # rpc \/ ridx' # ridx

\* C1: when Stop() has returned, every scraper worker ever spawned in any
\* group has returned, those cancelled by an earlier reconcile included.
StopWaitsForAllWorkers ==
    stopReturned =>
        \A g \in Groups : \A i \in 1..Len(scrapers[g]) : scrapers[g][i].st = "done"

\* Stop() has returned in a run in which a reconcile had cancelled a scraper
\* (the changes counter counts that deletion) before the group was stopped.
StopAfterCancelledWorker ==
    /\ stopReturned
    /\ \E g \in Groups :
          /\ Len(scrapers[g]) >= 2
          /\ changesCount[g] > Len(scrapers[g])

\* C2: for every group and key at most one spawned worker has not yet
\* returned from run.
AtMostOneAliveWorkerPerKey ==
    \A g \in Groups : \A k \in Keys :
        Cardinality({i \in AliveWorkers(g) : Key(scrapers[g][i].sw) = k}) <= 1

\* C3: after a reconcile of sws the keys of the live map are exactly the
\* distinct keys of sws, and a newly added key holds a new scraper built from
\* the first entry of sws with that key.
ReconcileInstallsDesired ==
    [][\A g \in Groups :
          ReconcileStep(g) =>
              LET sws == swsPrev'[g] IN
              /\ LiveKeys(m'[g]) = DesiredKeys(sws)
              /\ \A k \in Keys :
                    (m[g][k] = NoScraper /\ m'[g][k] # NoScraper) =>
                        /\ m'[g][k] > Len(scrapers[g])
                        /\ m'[g][k] <= Len(scrapers'[g])
                        /\ scrapers'[g][m'[g][k]].sw = sws[FirstIndex(sws, k)]
      ]_vars

\* A group whose only reconcile with a change installed one scraper from a
\* list naming its key twice with different original labels.
InstalledFromFirstOccurrence ==
    \E g \in Groups :
        /\ spc[g] = "idle"
        /\ Len(swsPrev[g]) = 2
        /\ Key(swsPrev[g][1]) = Key(swsPrev[g][2])
        /\ swsPrev[g][1].OriginalLabels # swsPrev[g][2].OriginalLabels
        /\ swsPrev[g][1].OriginalLabels # NilLabels
        /\ Len(scrapers[g]) = 1
        /\ changesCount[g] = 1
        /\ m[g][Key(swsPrev[g][1])] = 1
        /\ scrapers[g][1].sw = swsPrev[g][1]

\* C4: a reconcile keeps every live scraper whose key is in the desired
\* list: the same instance stays in the live map, its stop channel is not
\* closed and no new scraper is spawned for its key.
ReconcileKeepsWantedScraper ==
    [][\A g \in Groups :
          ReconcileStep(g) =>
              \A k \in LiveKeys(m[g]) \cap DesiredKeys(swsPrev'[g]) :
                  /\ m'[g][k] = m[g][k]
                  /\ scrapers'[g][m[g][k]] = scrapers[g][m[g][k]]
                  /\ scrapers'[g][m[g][k]].stopCh = 0
                  /\ \A i \in (Len(scrapers[g]) + 1)..Len(scrapers'[g]) :
                        Key(scrapers'[g][i].sw) # k
      ]_vars

\* A scraper that stayed live and open while a later scraper of another key
\* was added and then cancelled by a reconcile.
KeptAcrossReconciles ==
    \E g \in Groups :
        /\ spc[g] = "idle"
        /\ Len(scrapers[g]) = 2
        /\ m[g][Key(scrapers[g][1].sw)] = 1
        /\ scrapers[g][1].stopCh = 0
        /\ scrapers[g][1].st = "run"
        /\ Key(scrapers[g][2].sw) # Key(scrapers[g][1].sw)
        /\ scrapers[g][2].stopCh = 1
        /\ Key(scrapers[g][1].sw) \in DesiredKeys(swsPrev[g])

\* C5: PendingScrapeConfigs is never negative; it goes up by one per scs.add
\* and only while no ScrapeConfig has decremented it; it goes down by one
\* per ScrapeConfig, right after that ScrapeConfig's first reconcile and
\* after every add; it reaches zero when the last ScrapeConfig decrements
\* and never increases once a decrement has happened.
PendingLifecycle ==
    [][/\ Pending' >= 0
       /\ Pending' = Cardinality({g \in Groups : spc'[g] \in {"await", "init", "dec"}})
       /\ (Pending' > Pending =>
              /\ Pending' = Pending + 1
              /\ rpc = "add"
              /\ scfgs' = scfgs + 1
              /\ \A g \in Groups : ~Inited(g))
       /\ (Pending' < Pending =>
              /\ Pending' = Pending - 1
              /\ scfgs = NumSD
              /\ \E g \in Groups : spc[g] = "dec" /\ spc'[g] = "idle")
       /\ ((\E g \in Groups : Inited(g)) => Pending' <= Pending)
       /\ ((Pending > 0 /\ Pending' = 0) => \A g \in Groups : spc'[g] \in InitedPcs)
      ]_vars

\* Every ScrapeConfig has made its first reconcile, the counter is back at
\* zero and the Runner has applied a changed reload since.
PendingBackAtZero ==
    /\ Pending = 0
    /\ \A g \in Groups : Inited(g)
    /\ configReloads > 0

\* C6: PendingScrapeConfigs reads zero exactly when every SD category has
\* completed its initial reconcile.
PendingZeroIffAllInited ==
    (Pending = 0) <=> (\A g \in Groups : Inited(g))

\* C7: a reload whose freshly loaded bytes equal the applied bytes changes
\* nothing: the Runner keeps cfg and data, returns to its select without
\* sending to any ScrapeConfig or counting a reload, and no changes counter,
\* live map or scraper changes.
IdenticalReloadChangesNothing ==
    [][(rpc = "loaded" /\ dataNew # LoadErr /\ dataNew = data /\ RunnerStepTaken) =>
          /\ rpc' = "select"
          /\ cfg' = cfg
          /\ data' = data
          /\ cfgCh' = cfgCh
          /\ configReloads' = configReloads
          /\ changesCount' = changesCount
          /\ m' = m
          /\ scrapers' = scrapers
      ]_vars

\* The Runner has loaded bytes equal to the applied ones while scrapers run.
IdenticalReloadLoaded ==
    /\ rpc = "loaded"
    /\ dataNew = data
    /\ \E g \in Groups : AliveWorkers(g) # {}

\* C8: after a reconcile every entry of the desired list whose key occurred
\* earlier in the list has been registered in the duplicate registry, and at
\* most one scraper per distinct key was started.
DuplicatesRegistered ==
    [][\A g \in Groups :
          ReconcileStep(g) =>
              /\ Len(droppedTargets'[g]) = Cardinality(LaterOccurrences(swsPrev'[g]))
              /\ Len(scrapers'[g]) - Len(scrapers[g]) <= Cardinality(DesiredKeys(swsPrev'[g]))
      ]_vars

NoScraperStartedAfterStopCall ==
    [][globalStop > 0 =>
          \A g \in Groups : Len(scrapers'[g]) = Len(scrapers[g])]_vars

\* C10 as amended: no scraper is started in a group once its ScrapeConfig
\* has taken the stop case of its select, and none anywhere once Stop() has
\* returned.
NoScraperStartedAfterStopped ==
    [][\A g \in Groups :
          (stopReturned \/ spc[g] \in {"waitwg", "done"}) =>
              Len(scrapers'[g]) = Len(scrapers[g])]_vars

\* Stop() has returned while a config the Runner sent is still queued,
\* unread, in the channel of a ScrapeConfig that had started scrapers.
StoppedWithQueuedConfig ==
    /\ stopReturned
    /\ \E g \in Groups : cfgCh[g] # << >> /\ Len(scrapers[g]) > 0

\* C12: when loadConfig fails on a reload signal or a config-check tick the
\* Runner keeps cfg and data, sends to no ScrapeConfig, does not count a
\* reload and is back at its select, where every later reload, tick and
\* stop event is handled as before the failure.
FailedReloadKeepsConfig ==
    [][(rpc = "loaded" /\ dataNew = LoadErr /\ RunnerStepTaken) =>
          /\ rpc' = "select"
          /\ cfg' = cfg
          /\ data' = data
          /\ cfgCh' = cfgCh
          /\ configReloads' = configReloads
          /\ scsStop' = scsStop
      ]_vars

\* loadConfig has just failed on a reload that follows an applied, changed
\* reload, and the Runner may still take further reloads.
FailedReloadLoaded ==
    /\ rpc = "loaded"
    /\ dataNew = LoadErr
    /\ configReloads > 0
    /\ configReloads < MaxReloads
    /\ data # NoConfig

\* C13: reconciling again the list the group reconciled last changes
\* nothing: no scraper is added, no stop channel is closed, the live map and
\* every scraper stay as they are and the changes counter is not bumped.
RepeatedReconcileIsIdempotent ==
    [][\A g \in Groups :
          (ReconcileStep(g) /\ spc[g] = "busy" /\ swsPrev'[g] = swsPrev[g]) =>
              /\ m'[g] = m[g]
              /\ scrapers'[g] = scrapers[g]
              /\ changesCount'[g] = changesCount[g]
      ]_vars

\* A group about to reconcile once more after a reconcile that started the
\* scrapers of a list of two keys: both keys are live and both workers run.
ReconciledTwoKeysBusyAgain ==
    \E g \in Groups :
        /\ spc[g] = "busy"
        /\ Cardinality(DesiredKeys(swsPrev[g])) = 2
        /\ LiveKeys(m[g]) = DesiredKeys(swsPrev[g])
        /\ Cardinality(AliveWorkers(g)) = 2

\* C14: a reconcile raises the group's changes counter by exactly the number
\* of distinct desired keys that were not live before plus the number of
\* live keys that are not desired, and leaves it alone when both are zero.
ChangesCountedExactly ==
    [][\A g \in Groups :
          ReconcileStep(g) =>
              LET desired == DesiredKeys(swsPrev'[g])
                  live == LiveKeys(m[g])
              IN changesCount'[g] =
                     changesCount[g] + Cardinality(desired \ live)
                                     + Cardinality(live \ desired)
      ]_vars

\* A group whose counter reads 3 after two scrapers: one reconcile added a
\* key, a later one replaced it with another key (one addition and one
\* deletion).
CounterAfterReplacement ==
    \E g \in Groups :
        /\ spc[g] = "idle"
        /\ changesCount[g] = 3
        /\ Len(scrapers[g]) = 2
        /\ scrapers[g][1].stopCh = 1
        /\ scrapers[g][2].stopCh = 0
        /\ LiveKeys(m[g]) = {Key(scrapers[g][2].sw)}
        /\ Key(scrapers[g][1].sw) # Key(scrapers[g][2].sw)

\* C17 as claimed: when the global stop channel is closed and the Runner is
\* at its select, the Runner takes the stop case and no reload or tick.
StopPreemptsReload ==
    [][(globalStop > 0 /\ rpc = "select" /\ RunnerStepTaken) => rpc' = "wait"]_vars

\* C17 as amended: the select may still take a reload signal or a tick
\* while the global stop channel is closed; from the step in which the
\* Runner takes the stop case on, it loads and applies no config, sends to
\* no ScrapeConfig and does not count a reload.
RunnerQuietAfterStopCase ==
    [][scsStop' > 0 =>
          /\ rpc' \in {"wait", "done"}
          /\ cfg' = cfg
          /\ data' = data
          /\ dataNew' = dataNew
          /\ configReloads' = configReloads
          /\ \A g \in Groups : Len(cfgCh'[g]) <= Len(cfgCh[g])
      ]_vars

\* The Runner has taken the stop case after an applied reload, at a moment
\* when its select could as well have taken one more reload or tick.
StopCaseTakenWithReloadsLeft ==
    /\ rpc = "wait"
    /\ scsStop = 1
    /\ configReloads > 0
    /\ configReloads < MaxReloads

\* C19: no stop channel is closed twice: every scraper's stop channel is
\* closed at most once, by a reconcile or by the group's stop(), and the
\* stop channel shared by the ScrapeConfigs is closed exactly once, by the
\* Runner's stop case.
NoStopChannelClosedTwice ==
    /\ \A g \in Groups : \A i \in 1..Len(scrapers[g]) : scrapers[g][i].stopCh <= 1
    /\ scsStop <= 1
    /\ (scsStop = 1) <=> (rpc = "wait" \/ (rpc = "done" /\ configFile # ""))
    /\ \A g \in Groups :
          spc[g] \in {"waitwg", "done"} =>
              \A i \in 1..Len(scrapers[g]) : scrapers[g][i].stopCh = 1

\* A stopped group with two scrapers of which a reconcile had cancelled one
\* (the counter counts two additions and one deletion) and stop() the other.
GroupStoppedAfterCancel ==
    \E g \in Groups :
        /\ spc[g] \in {"waitwg", "done"}
        /\ Len(scrapers[g]) = 2
        /\ changesCount[g] = 3
        /\ scsStop = 1

\* C20: between two operations of a group that has not been stopped, the
\* scrapers in its live map are exactly the scrapers it started whose stop
\* channel is still open, each filed under its own key; so every scraper
\* removed from the map has a closed stop channel and at most one scraper
\* per key has an open one.
LiveMapIsOpenScrapers ==
    \A g \in Groups :
        spc[g] \notin {"waitwg", "done"} =>
            /\ {m[g][k] : k \in LiveKeys(m[g])} =
                   {i \in 1..Len(scrapers[g]) : scrapers[g][i].stopCh = 0}
            /\ \A k \in LiveKeys(m[g]) : Key(scrapers[g][m[g][k]].sw) = k
            /\ \A k \in Keys :
                  Cardinality({i \in 1..Len(scrapers[g]) :
                                  /\ scrapers[g][i].stopCh = 0
                                  /\ Key(scrapers[g][i].sw) = k}) <= 1

\* A group that runs two workers for one key: the first was cancelled by a
\* reconcile and has not returned yet, the second was started for the same
\* key by a later reconcile and is the one in the live map.
CancelledAndLiveForOneKey ==
    \E g \in Groups :
        /\ spc[g] = "idle"
        /\ Len(scrapers[g]) = 2
        /\ Key(scrapers[g][1].sw) = Key(scrapers[g][2].sw)
        /\ scrapers[g][1].stopCh = 1 /\ scrapers[g][1].st = "run"
        /\ scrapers[g][2].stopCh = 0 /\ scrapers[g][2].st = "run"
        /\ m[g][Key(scrapers[g][2].sw)] = 2

\* C15: when Stop() has returned the target-status monitor holds no
\* registered target: every target a reconcile registered has been
\* unregistered by its worker.
NoTargetRegisteredAfterStop ==
    stopReturned => tsm = {}

\* Stop() has returned after a changed reload, with scrapers started and
\* registered by both groups.
StopAfterReloadAndScrapers ==
    /\ stopReturned
    /\ configReloads > 0
    /\ \A g \in Groups : Len(scrapers[g]) > 0

\* C16: a worker that has begun to run and has not yet unregistered its
\* target runs for a registered target: Register comes before the start of
\* the worker, the return of the worker before Unregister.
WorkerRunsOnlyRegistered ==
    \A g \in Groups : \A i \in 1..Len(scrapers[g]) :
        scrapers[g][i].st = "run" => << g, i >> \in tsm

\* C11: once Stop() is invoked it eventually returns, from whatever state
\* the Runner, the ScrapeConfigs and the workers are in, under fair
\* scheduling; the only other end is the exit of the process on a failed
\* initial load.
ShutdownCompletes ==
    (globalStop > 0) ~> (stopReturned \/ rpc = "fatal")

\* Stop() has been invoked while the Runner is in the middle of its first
\* fan-out and a ScrapeConfig still awaits or performs its initial
\* reconcile.
StopCalledDuringFanOut ==
    /\ globalStop > 0
    /\ ~stopReturned
    /\ rpc = "fanout"
    /\ \E g \in Groups : spc[g] \in {"await", "init"}

\* C18: under fair scheduling every fan-out reaches every ScrapeConfig, and
\* a config queued for a ScrapeConfig is eventually received and reconciled
\* by it unless the ScrapeConfigs are stopped first; a ScrapeConfig whose
\* check interval is 0 starts a reconcile only by receiving a config.
ConfigsReachEveryScrapeConfig ==
    /\ \A g \in Groups :
          (rpc = "fanout" /\ ridx = g) ~> ~(rpc = "fanout" /\ ridx = g)
    /\ \A g \in Groups : \A c \in {ParseConfig(raw) : raw \in RawConfigs} :
          (cfgCh[g] = << c >>) ~>
              \/ scfgCfg[g] = c /\ spc[g] \in {"dec", "idle"}
              \/ scsStop > 0
    /\ [][\A g \in Groups :
             (/\ CheckInterval(g) = 0
              /\ spc[g] \notin {"init", "busy"}
              /\ spc'[g] \in {"init", "busy"}) =>
                 /\ cfgCh[g] # << >>
                 /\ scfgCfg'[g] = Head(cfgCh[g])
                 /\ cfgCh'[g] = Tail(cfgCh[g])
       ]_vars

\* The config of a changed reload is queued for the ScrapeConfig whose
\* check interval is 0, which waits in its select, still holding the
\* previous config; nothing has been stopped.
ReloadQueuedForStaticGroup ==
    \E g \in Groups :
        /\ CheckInterval(g) = 0
        /\ spc[g] = "idle"
        /\ configReloads > 0
        /\ cfgCh[g] = << cfg >>
        /\ scfgCfg[g] # cfg
        /\ globalStop = 0

====
